---- MODULE Spec2Model ----
(***************************************************************************)
(* Model of the XyPCLI dependency installer (package modules, project.go): *)
(* backend resolution, the bounded parallel install batch of               *)
(* InstallPackages / installDependencies, the npm mutual-exclusion lock,   *)
(* the result collector with its strict-mode exit, and the sequential      *)
(* single-package install of InstallPackage.                               *)
(***************************************************************************)
EXTENDS Integers, Sequences, FiniteSets, TLC

\* ---- bounds of the model ------------------------------------------------
\* Largest batch whose package names, dev split and outcomes are all enumerated.
MaxPkgs == 2
\* Largest batch of the scaling scenarios (distinct packages A, B, C, ...).
MaxPool == 5
\* Largest enumerated batch of the liveness checks.
MaxLive == 2
\* largest number of lines in a simulated stderr text
MaxStderrLines == 6

\* Package names of the enumerated batches: the named exception and an ordinary one.
Names == {"nquickdev", "xypriss"}
\* Package names of the scaling scenarios.
PoolNames == <<"A", "B", "C", "D", "E", "F">>

\* ---- program constants --------------------------------------------------
maxConcurrentLimit == 4

VARIABLES
  entry,        \* entry point: "InstallPackage", "InstallPackages" or "installDependencies"
  mode,         \* --mode value: "b", "n" or "" (auto)
  strict,       \* --strict flag (installDependencies only)
  deps,         \* regular packages, in input order
  devDeps,      \* dev packages, in input order (installDependencies only)
  fails,        \* simulated subprocess outcome of each entry: TRUE = cmd.Run returns an error
  errOutput,    \* simulated stderr text of each entry's subprocess
  pc,           \* position of the calling goroutine
  useBun,       \* resolved backend
  bunLookup,    \* result of exec.LookPath("bun"): "unchecked", "found", "absent"
  npmLookup,    \* result of exec.LookPath("npm"): "unchecked", "found", "absent"
  bunInstall,   \* result of installBun(): "notrun", "ok", "failed"
  spawned,      \* number of goroutines launched so far
  semaphore,    \* number of elements in the semaphore channel
  npmMutex,     \* 0 when unlocked, else the task holding npmMutex
  tpc,          \* position of each task goroutine
  cmd,          \* argv built by each task (<<>> before it is built)
  results,      \* buffered results channel
  completed,    \* collector's counter
  failedDeps,   \* collector's failed list
  failMarks,    \* tasks that printed their "(failed)" line and diagnostic
  errorLines,   \* diagnostic lines printed by each task (<<>> if none)
  abortMsg,     \* "Failed package:" line of the strict-mode abort (<<>> if none)
  exitCode      \* -1 while the process runs, else its exit status

vars == <<entry, mode, strict, deps, devDeps, fails, errOutput, pc, useBun, bunLookup,
          npmLookup, bunInstall, spawned, semaphore, npmMutex, tpc, cmd, results,
          completed, failedDeps, failMarks, errorLines, abortMsg, exitCode>>

inputs == <<entry, mode, strict, deps, devDeps, fails, errOutput>>
resolution == <<useBun, bunLookup, npmLookup, bunInstall>>

SeqsUpTo(S, n) == UNION {[1..k -> S] : k \in 0..n}

\* ---- the batch ------------------------------------------------------------
totalDeps == Len(deps) + Len(devDeps)

Tasks == 1..totalDeps

isDevTask(i) == i > Len(deps)

packageNameOf(i) == IF isDevTask(i) THEN devDeps[i - Len(deps)] ELSE deps[i]

indexOf(i) == IF isDevTask(i) THEN i - Len(deps) - 1 ELSE i - 1

maxConcurrent_Uncapped == totalDeps

maxConcurrent == IF totalDeps < maxConcurrentLimit THEN totalDeps ELSE maxConcurrentLimit

selectCommand_NoException(packageName, bun) ==
  IF bun THEN <<"bun", "add", packageName>> ELSE <<"npm", "install", packageName>>

\* installPackageParallel: the command of one task of a batch.
selectCommand(packageName, bun) ==
  IF bun /\ packageName = "nquickdev" THEN <<"npm", "install", packageName>>
  ELSE IF bun THEN <<"bun", "add", packageName>>
  ELSE <<"npm", "install", packageName>>

\* installSingleDependency: the command of the sequential single install.
selectCommandSingle(dep, isDev, bun) ==
  IF bun /\ dep = "nquickdev"
    THEN IF isDev THEN <<"npm", "install", "--save-dev", dep>> ELSE <<"npm", "install", dep>>
  ELSE IF bun
    THEN IF isDev THEN <<"bun", "add", "-d", dep>> ELSE <<"bun", "add", dep>>
  ELSE IF isDev THEN <<"npm", "install", "--save-dev", dep>> ELSE <<"npm", "install", dep>>

\* ---- the failure diagnostic -----------------------------------------------
\* Go string functions, on strings as sequences of one-character strings.
charAt(s, k) == SubSeq(s, k, k)

dropFirst(s) == SubSeq(s, 2, Len(s))

Contains(s, substr) ==
  \E k \in 1..(Len(s) - Len(substr) + 1) : SubSeq(s, k, k + Len(substr) - 1) = substr

\* The capital letters among the characters a string of this module can hold (up to
\* U+00FF), A-Z and U+00C0..U+00DE without U+00D7, and what unicode.ToLower maps
\* them to, position by position.
upperCase == "ABCDEFGHIJKLMNOPQRSTUVWXYZÀÁÂÃÄÅÆÇÈÉÊËÌÍÎÏÐÑÒÓÔÕÖØÙÚÛÜÝÞ"
lowerCase == "abcdefghijklmnopqrstuvwxyzàáâãäåæçèéêëìíîïðñòóôõöøùúûüýþ"

lowerOf ==
  [c \in {charAt(upperCase, k) : k \in 1..Len(upperCase)}
     |-> charAt(lowerCase, CHOOSE k \in 1..Len(upperCase) : charAt(upperCase, k) = c)]

lowerChar(c) == IF c \in DOMAIN lowerOf THEN lowerOf[c] ELSE c

RECURSIVE ToLower(_)
ToLower(s) == IF s = "" THEN "" ELSE lowerChar(charAt(s, 1)) \o ToLower(dropFirst(s))

\* unicode.IsSpace on the characters a string of this module can hold (up to U+00FF):
\* tab, line feed, vertical tab, form feed, carriage return, space, U+0085 and U+00A0.
whiteSpace == {"\t", "\n", "", "\f", "\r", " ", "", " "}

RECURSIVE TrimLeft(_)
TrimLeft(s) ==
  IF s # "" /\ charAt(s, 1) \in whiteSpace THEN TrimLeft(dropFirst(s)) ELSE s

RECURSIVE TrimRight(_)
TrimRight(s) ==
  IF s # "" /\ charAt(s, Len(s)) \in whiteSpace
    THEN TrimRight(SubSeq(s, 1, Len(s) - 1)) ELSE s

TrimSpace(s) == TrimRight(TrimLeft(s))

\* The position of the first "\n" of s at or after position k, 0 if there is none.
RECURSIVE Index(_, _)
Index(s, k) ==
  IF k > Len(s) THEN 0 ELSE IF charAt(s, k) = "\n" THEN k ELSE Index(s, k + 1)

\* strings.Split(s, "\n"): the pieces between the separators, empty ones included.
RECURSIVE Split(_)
Split(s) ==
  LET k == Index(s, 1)
  IN IF k = 0 THEN <<s>>
     ELSE <<SubSeq(s, 1, k - 1)>> \o Split(SubSeq(s, k + 1, Len(s)))

firstLines(lines, n) == SubSeq(lines, 1, IF Len(lines) < n THEN Len(lines) ELSE n)

errorMarkers == {"ERR!", "error", "404", "ENOENT", "ENOTEMPTY", "code"}

maxLines == 5

fallbackLines == 3

isErrorLine_WarnIsMarker(line) ==
  \E m \in errorMarkers \cup {"warn"} : Contains(line, m)

isErrorLine_KeepsWarnings(line) == \E m \in errorMarkers : Contains(line, m)

\* The test of the first loop: an error marker, and no "warn" in any letter case.
isErrorLine(line) ==
  /\ \E m \in errorMarkers : Contains(line, m)
  /\ ~Contains(ToLower(line), "warn")

isNonEmpty(line) == line # ""

extractErrorLines_UncappedFallback(stderr) ==
  IF stderr = "" THEN <<>>
  ELSE LET lines == Split(stderr)
           trimmed == SelectSeq([k \in 1..Len(lines) |-> TrimSpace(lines[k])], isNonEmpty)
           specific == SelectSeq(trimmed, isErrorLine)
           chosen == IF Len(specific) = 0 THEN trimmed ELSE specific
       IN firstLines(chosen, maxLines)

extractErrorLines_NoFallback(stderr) ==
  IF stderr = "" THEN <<>>
  ELSE LET lines == Split(stderr)
           trimmed == SelectSeq([k \in 1..Len(lines) |-> TrimSpace(lines[k])], isNonEmpty)
           specific == SelectSeq(trimmed, isErrorLine)
       IN firstLines(specific, maxLines)

\* installPackageParallel, error path: the lines printed under the "(failed)" line.
extractErrorLines(stderr) ==
  IF stderr = "" THEN <<>>
  ELSE LET lines == Split(stderr)
           trimmed == SelectSeq([k \in 1..Len(lines) |-> TrimSpace(lines[k])], isNonEmpty)
           specific == SelectSeq(trimmed, isErrorLine)
           chosen == IF Len(specific) = 0 THEN firstLines(trimmed, fallbackLines)
                     ELSE specific
       IN firstLines(chosen, maxLines)

\* ---- backend resolution ---------------------------------------------------
Looked(found) == IF found THEN "found" ELSE "absent"

npmFallback_ProvisionFailureFatal(bunL, inst, npmOnPath) ==
  [useBun |-> FALSE, ok |-> npmOnPath /\ inst # "failed", bunLookup |-> bunL,
   npmLookup |-> Looked(npmOnPath), bunInstall |-> inst]

\* Falls back to npm: the batch goes on iff npm is on the search path.
npmFallback(bunL, inst, npmOnPath) ==
  [useBun |-> FALSE, ok |-> npmOnPath, bunLookup |-> bunL,
   npmLookup |-> Looked(npmOnPath), bunInstall |-> inst]

bunChosen_IgnoresProvisioned(bunL, inst) ==
  [useBun |-> inst # "ok", ok |-> TRUE, bunLookup |-> bunL, npmLookup |-> "unchecked",
   bunInstall |-> inst]

bunChosen(bunL, inst) ==
  [useBun |-> TRUE, ok |-> TRUE, bunLookup |-> bunL, npmLookup |-> "unchecked",
   bunInstall |-> inst]

\* installBun: runs "npm install -g bun", output discarded; true iff the command
\* could be started and exited with status 0.
installBun(npmOnPath, runOk) == npmOnPath /\ runOk

resolveBackend_NpmByDefault(e, m, bunOnPath, npmOnPath, bunInstallOk) ==
  IF m = "b" /\ bunOnPath THEN bunChosen("found", "notrun")
  ELSE IF m = "b" THEN npmFallback("absent", "notrun", npmOnPath)
  ELSE npmFallback("unchecked", "notrun", npmOnPath)

resolveBackend_ForcedNpmPrefersBun(e, m, bunOnPath, npmOnPath, bunInstallOk) ==
  IF bunOnPath THEN bunChosen("found", "notrun")
  ELSE npmFallback("absent", "notrun", npmOnPath)

resolveBackend_ForcedBunProvisions(e, m, bunOnPath, npmOnPath, bunInstallOk) ==
  IF m = "n" THEN npmFallback("unchecked", "notrun", npmOnPath)
  ELSE IF bunOnPath THEN bunChosen("found", "notrun")
  ELSE IF e = "installDependencies"
    THEN IF bunInstallOk THEN bunChosen("absent", "ok")
         ELSE npmFallback("absent", "failed", npmOnPath)
  ELSE npmFallback("absent", "notrun", npmOnPath)

\* The "Determine installation mode" block of the three entry points.
resolveBackend(e, m, bunOnPath, npmOnPath, bunInstallOk) ==
  IF e = "InstallPackage"
    THEN IF bunOnPath THEN bunChosen("found", "notrun")
         ELSE npmFallback("absent", "notrun", npmOnPath)
  ELSE IF m = "b"
    THEN IF bunOnPath THEN bunChosen("found", "notrun")
         ELSE npmFallback("absent", "notrun", npmOnPath)
  ELSE IF m = "n"
    THEN npmFallback("unchecked", "notrun", npmOnPath)
  ELSE IF bunOnPath THEN bunChosen("found", "notrun")
  ELSE IF e = "installDependencies"
    THEN IF bunInstallOk THEN bunChosen("absent", "ok")
         ELSE npmFallback("absent", "failed", npmOnPath)
  ELSE npmFallback("absent", "notrun", npmOnPath)

\* ---- initial states -------------------------------------------------------
\* Subprocesses that write nothing to stderr.
Silent(n) == errOutput = [i \in 1..n |-> ""]

Idle(n) ==
  /\ pc = "start"
  /\ useBun = FALSE
  /\ bunLookup = "unchecked"
  /\ npmLookup = "unchecked"
  /\ bunInstall = "notrun"
  /\ spawned = 0
  /\ semaphore = 0
  /\ npmMutex = 0
  /\ tpc = [i \in 1..n |-> "unstarted"]
  /\ cmd = [i \in 1..n |-> <<>>]
  /\ results = <<>>
  /\ completed = 0
  /\ failedDeps = <<>>
  /\ failMarks = {}
  /\ errorLines = [i \in 1..n |-> <<>>]
  /\ abortMsg = <<>>
  /\ exitCode = -1

\* What the subprocess of the single install writes to stderr: nothing, an npm
\* "404 Not Found" report, the "Not Found" wording alone, or another npm error.
SingleStderrTexts ==
  {"", "npm ERR! 404 Not Found\n", "npm ERR! Not Found - GET\n", "npm ERR! code ENOENT\n"}

\* Every batch of at most max entries named in S, with every dev split, flag and outcome.
InitEnumerated(S, max) ==
  /\ entry \in {"InstallPackage", "InstallPackages", "installDependencies"}
  /\ mode \in IF entry = "InstallPackage" THEN {""} ELSE {"b", "n", ""}
  /\ deps \in IF entry = "InstallPackage" THEN [1..1 -> S] ELSE SeqsUpTo(S, max)
  /\ devDeps \in IF entry = "installDependencies"
                   THEN SeqsUpTo(S, max - Len(deps)) ELSE {<<>>}
  /\ strict \in IF entry = "installDependencies" THEN BOOLEAN ELSE {FALSE}
  /\ fails \in [1..(Len(deps) + Len(devDeps)) -> BOOLEAN]
  /\ IF entry = "InstallPackage" THEN errOutput \in [1..1 -> SingleStderrTexts]
     ELSE Silent(Len(deps) + Len(devDeps))
  /\ Idle(Len(deps) + Len(devDeps))

InitSmall == InitEnumerated(Names, MaxPkgs)

\* Scaling scenarios: a batch of N distinct packages that all succeed; the ad-hoc
\* install under either forced backend, the init-time batch under forced npm.
InitPool ==
  /\ entry \in {"InstallPackages", "installDependencies"}
  /\ mode \in IF entry = "InstallPackages" THEN {"b", "n"} ELSE {"n"}
  /\ strict = FALSE
  /\ \E n \in 0..MaxPool :
       /\ deps = SubSeq(PoolNames, 1, n)
       /\ fails = [i \in 1..n |-> FALSE]
       /\ Silent(n)
       /\ Idle(n)
  /\ devDeps = <<>>

\* The strict early-exit scenario: [A(fail), B(success), C(success)], strict = true.
InitStrictABC ==
  /\ entry = "installDependencies"
  /\ mode \in {"b", "n", ""}
  /\ strict = TRUE
  /\ deps = <<"A", "B", "C">>
  /\ devDeps = <<>>
  /\ fails = <<TRUE, FALSE, FALSE>>
  /\ Silent(3)
  /\ Idle(3)

Init == InitSmall \/ InitPool \/ InitStrictABC

\* The pool-exhaustion scenario: an init-time batch of one package more than the pool
\* has permits, of which as many fail as there are permits and the last one succeeds,
\* under either forced backend.
InitPermits ==
  /\ entry = "installDependencies"
  /\ mode \in {"b", "n"}
  /\ strict = FALSE
  /\ deps = SubSeq(PoolNames, 1, maxConcurrentLimit + 1)
  /\ devDeps = <<>>
  /\ fails = [i \in 1..(maxConcurrentLimit + 1) |-> i <= maxConcurrentLimit]
  /\ Silent(maxConcurrentLimit + 1)
  /\ Idle(maxConcurrentLimit + 1)

\* The lines a simulated stderr text is made of: npm warnings without and with an
\* error marker (in both letter cases), npm error lines, and an ordinary line with
\* blanks around it.
StderrLines ==
  {"npm WARN deprecated foo", "npm warn tar ENOENT",
   "npm ERR! code ENOENT", "npm ERR! enoent no such file", "\t  up to date  \r"}

\* Every line terminated by a newline, as a subprocess writes them.
RECURSIVE joinLines(_)
joinLines(lines) ==
  IF lines = <<>> THEN "" ELSE Head(lines) \o "\n" \o joinLines(Tail(lines))

StderrTexts == {joinLines(lines) : lines \in SeqsUpTo(StderrLines, MaxStderrLines)}

\* A batch of one package under npm whose subprocess is in flight and will fail,
\* with every stderr text.
InitDiag ==
  /\ entry = "InstallPackages" /\ mode = "n" /\ strict = FALSE
  /\ deps = <<"xypriss">> /\ devDeps = <<>>
  /\ fails = <<TRUE>>
  /\ errOutput \in [1..1 -> StderrTexts]
  /\ pc = "collect"
  /\ useBun = FALSE /\ bunLookup = "unchecked" /\ npmLookup = "found"
  /\ bunInstall = "notrun"
  /\ spawned = 1 /\ semaphore = 1 /\ npmMutex = 1
  /\ tpc = <<"run">>
  /\ cmd = <<<<"npm", "install", "xypriss">>>>
  /\ results = <<>> /\ completed = 0 /\ failedDeps = <<>>
  /\ failMarks = {} /\ errorLines = <<<<>>>>
  /\ abortMsg = <<>> /\ exitCode = -1

\* The batches of the liveness checks: no scaling scenario, one ordinary package name.
InitLive == InitEnumerated({"xypriss"}, MaxLive) \/ InitStrictABC

\* ---- the calling goroutine ------------------------------------------------
running == exitCode = -1

\* Entry up to the start of the batch: the input file check and the backend resolution.
Prepare ==
  /\ pc = "start"
  /\ \E inputFound \in BOOLEAN, bunOnPath \in BOOLEAN, npmOnPath \in BOOLEAN,
        runOk \in BOOLEAN :
       LET r == resolveBackend(entry, mode, bunOnPath, npmOnPath,
                               installBun(npmOnPath, runOk)) IN
         IF ~inputFound
           THEN /\ pc' = "noInput"
                /\ UNCHANGED resolution
           ELSE /\ useBun' = r.useBun
                /\ bunLookup' = r.bunLookup
                /\ npmLookup' = r.npmLookup
                /\ bunInstall' = r.bunInstall
                /\ pc' = IF ~r.ok THEN "noBackend"
                         ELSE IF entry = "InstallPackage" THEN "single" ELSE "spawn"
  /\ UNCHANGED <<inputs, errorLines, spawned, semaphore, npmMutex, tpc, cmd, results, completed,
                 failedDeps, failMarks, abortMsg, exitCode>>

Spawn_ReResolves ==
  /\ pc = "spawn"
  /\ IF spawned < totalDeps
       THEN /\ spawned' = spawned + 1
            /\ tpc' = [tpc EXCEPT ![spawned + 1] = "acquire"]
            /\ pc' = pc
            /\ useBun' = (bunLookup = "found" /\ spawned = 0)
       ELSE /\ pc' = "collect"
            /\ UNCHANGED <<spawned, tpc, useBun>>
  /\ UNCHANGED <<inputs, errorLines, bunLookup, npmLookup, bunInstall, semaphore, npmMutex, cmd,
                 results, completed, failedDeps, failMarks, abortMsg, exitCode>>

Spawn_WaitsForPermit ==
  /\ pc = "spawn"
  /\ spawned < totalDeps => semaphore < maxConcurrent
  /\ IF spawned < totalDeps
       THEN /\ spawned' = spawned + 1
            /\ tpc' = [tpc EXCEPT ![spawned + 1] = "acquire"]
            /\ pc' = pc
       ELSE /\ pc' = "collect"
            /\ UNCHANGED <<spawned, tpc>>
  /\ UNCHANGED <<inputs, errorLines, resolution, semaphore, npmMutex, cmd, results, completed,
                 failedDeps, failMarks, abortMsg, exitCode>>

\* The "go func" loops: one goroutine per entry, deps first, then devDeps.
Spawn ==
  /\ pc = "spawn"
  /\ IF spawned < totalDeps
       THEN /\ spawned' = spawned + 1
            /\ tpc' = [tpc EXCEPT ![spawned + 1] = "acquire"]
            /\ pc' = pc
       ELSE /\ pc' = "collect"
            /\ UNCHANGED <<spawned, tpc>>
  /\ UNCHANGED <<inputs, errorLines, resolution, semaphore, npmMutex, cmd, results, completed,
                 failedDeps, failMarks, abortMsg, exitCode>>

\* ---- one task goroutine ---------------------------------------------------
\* Each action runs the goroutine from one blocking operation to the next.

AcquireSemaphore_AlwaysLocks(i) ==
  /\ running
  /\ tpc[i] = "acquire"
  /\ semaphore < maxConcurrent
  /\ semaphore' = semaphore + 1
  /\ cmd' = [cmd EXCEPT ![i] = selectCommand(packageNameOf(i), useBun)]
  /\ tpc' = [tpc EXCEPT ![i] = "lock"]
  /\ UNCHANGED <<inputs, errorLines, pc, resolution, spawned, npmMutex, results, completed,
                 failedDeps, failMarks, abortMsg, exitCode>>

\* semaphore <- struct{}{} succeeds; installPackageParallel builds the command and
\* prints the progress line; then npm waits for npmMutex, while bun calls cmd.Run().
AcquireSemaphore(i) ==
  /\ running
  /\ tpc[i] = "acquire"
  /\ semaphore < maxConcurrent
  /\ semaphore' = semaphore + 1
  /\ cmd' = [cmd EXCEPT ![i] = selectCommand(packageNameOf(i), useBun)]
  /\ tpc' = [tpc EXCEPT ![i] = IF ~useBun THEN "lock" ELSE "run"]
  /\ UNCHANGED <<inputs, errorLines, pc, resolution, spawned, npmMutex, results, completed,
                 failedDeps, failMarks, abortMsg, exitCode>>

LockNpmMutex_NoExclusion(i) ==
  /\ running
  /\ tpc[i] = "lock"
  /\ npmMutex' = i
  /\ tpc' = [tpc EXCEPT ![i] = "run"]
  /\ UNCHANGED <<inputs, errorLines, pc, resolution, spawned, semaphore, cmd, results, completed,
                 failedDeps, failMarks, abortMsg, exitCode>>

\* npmMutex.Lock() succeeds (reached only when !useBun), then cmd.Run() starts.
LockNpmMutex(i) ==
  /\ running
  /\ tpc[i] = "lock"
  /\ npmMutex = 0
  /\ npmMutex' = i
  /\ tpc' = [tpc EXCEPT ![i] = "run"]
  /\ UNCHANGED <<inputs, errorLines, pc, resolution, spawned, semaphore, cmd, results, completed,
                 failedDeps, failMarks, abortMsg, exitCode>>

CmdRunReturns_KeepsLock(i) ==
  /\ running
  /\ tpc[i] = "run"
  /\ failMarks' = IF fails[i] THEN failMarks \cup {i} ELSE failMarks
  /\ errorLines' = IF fails[i]
                     THEN [errorLines EXCEPT ![i] = extractErrorLines(errOutput[i])]
                     ELSE errorLines
  /\ tpc' = [tpc EXCEPT ![i] = "send"]
  /\ UNCHANGED <<inputs, pc, resolution, spawned, semaphore, npmMutex, cmd, results, completed,
                 failedDeps, abortMsg, exitCode>>

CmdRunReturns_WorkerWritesReport(i) ==
  /\ running
  /\ tpc[i] = "run"
  /\ failMarks' = IF fails[i] THEN failMarks \cup {i} ELSE failMarks
  /\ errorLines' = IF fails[i]
                     THEN [errorLines EXCEPT ![i] = extractErrorLines(errOutput[i])]
                     ELSE errorLines
  /\ npmMutex' = IF ~useBun THEN 0 ELSE npmMutex
  /\ tpc' = [tpc EXCEPT ![i] = "send"]
  /\ failedDeps' = IF fails[i] THEN Append(failedDeps, packageNameOf(i)) ELSE failedDeps
  /\ UNCHANGED <<inputs, pc, resolution, spawned, semaphore, cmd, results, completed,
                 abortMsg, exitCode>>

CmdRunReturns_FailureIsFatal(i) ==
  /\ running
  /\ tpc[i] = "run"
  /\ failMarks' = IF fails[i] THEN failMarks \cup {i} ELSE failMarks
  /\ errorLines' = IF fails[i]
                     THEN [errorLines EXCEPT ![i] = extractErrorLines(errOutput[i])]
                     ELSE errorLines
  /\ npmMutex' = IF ~useBun THEN 0 ELSE npmMutex
  /\ tpc' = [tpc EXCEPT ![i] = IF fails[i] THEN "done" ELSE "send"]
  /\ exitCode' = IF fails[i] THEN 2 ELSE exitCode
  /\ UNCHANGED <<inputs, pc, resolution, spawned, semaphore, cmd, results, completed,
                 failedDeps, abortMsg>>

CmdRunReturns_NoUnlockOnError(i) ==
  /\ running
  /\ tpc[i] = "run"
  /\ failMarks' = IF fails[i] THEN failMarks \cup {i} ELSE failMarks
  /\ errorLines' = IF fails[i]
                     THEN [errorLines EXCEPT ![i] = extractErrorLines(errOutput[i])]
                     ELSE errorLines
  /\ npmMutex' = IF ~useBun /\ ~fails[i] THEN 0 ELSE npmMutex
  /\ tpc' = [tpc EXCEPT ![i] = "send"]
  /\ UNCHANGED <<inputs, pc, resolution, spawned, semaphore, cmd, results, completed,
                 failedDeps, abortMsg, exitCode>>

CmdRunReturns_RetryOnFailure(i) ==
  /\ running
  /\ tpc[i] = "run"
  /\ failMarks' = IF fails[i] THEN failMarks \cup {i} ELSE failMarks
  /\ errorLines' = IF fails[i]
                     THEN [errorLines EXCEPT ![i] = extractErrorLines(errOutput[i])]
                     ELSE errorLines
  /\ IF fails[i] /\ i \notin failMarks
       THEN UNCHANGED <<npmMutex, tpc>>
       ELSE /\ npmMutex' = IF ~useBun THEN 0 ELSE npmMutex
            /\ tpc' = [tpc EXCEPT ![i] = "send"]
  /\ UNCHANGED <<inputs, pc, resolution, spawned, semaphore, cmd, results, completed,
                 failedDeps, abortMsg, exitCode>>

\* The subprocess terminates and cmd.Run() returns; on an error the task prints its
\* "(failed)" line and diagnostic; the return runs the deferred npmMutex.Unlock();
\* the goroutine reaches the send on the results channel.
CmdRunReturns(i) ==
  /\ running
  /\ tpc[i] = "run"
  /\ failMarks' = IF fails[i] THEN failMarks \cup {i} ELSE failMarks
  /\ errorLines' = IF fails[i]
                     THEN [errorLines EXCEPT ![i] = extractErrorLines(errOutput[i])]
                     ELSE errorLines
  /\ npmMutex' = IF ~useBun THEN 0 ELSE npmMutex
  /\ tpc' = [tpc EXCEPT ![i] = "send"]
  /\ UNCHANGED <<inputs, pc, resolution, spawned, semaphore, cmd, results, completed,
                 failedDeps, abortMsg, exitCode>>

installResult_InvertedSuccess(i) ==
  [packageName |-> packageNameOf(i), success |-> fails[i], isDev |-> isDevTask(i),
   index |-> indexOf(i)]

\* installResult{packageName, success, isDev, index}; success is what
\* installPackageParallel returned (err == nil).
installResult(i) ==
  [packageName |-> packageNameOf(i), success |-> ~fails[i], isDev |-> isDevTask(i),
   index |-> indexOf(i)]

SendResult_Unbuffered(i) ==
  /\ running
  /\ tpc[i] = "send"
  /\ Len(results) < 1
  /\ results' = Append(results, installResult(i))
  /\ tpc' = [tpc EXCEPT ![i] = "release"]
  /\ UNCHANGED <<inputs, errorLines, pc, resolution, spawned, semaphore, npmMutex, cmd, completed,
                 failedDeps, failMarks, abortMsg, exitCode>>

SendResult_SharedLoopVariable(i) ==
  /\ running
  /\ tpc[i] = "send"
  /\ Len(results) < totalDeps
  /\ results' = Append(results,
                       [installResult(i) EXCEPT !.packageName = packageNameOf(spawned)])
  /\ tpc' = [tpc EXCEPT ![i] = "release"]
  /\ UNCHANGED <<inputs, errorLines, pc, resolution, spawned, semaphore, npmMutex, cmd, completed,
                 failedDeps, failMarks, abortMsg, exitCode>>

\* results <- installResult{...}: blocks while the buffer is full.
SendResult(i) ==
  /\ running
  /\ tpc[i] = "send"
  /\ Len(results) < totalDeps
  /\ results' = Append(results, installResult(i))
  /\ tpc' = [tpc EXCEPT ![i] = "release"]
  /\ UNCHANGED <<inputs, errorLines, pc, resolution, spawned, semaphore, npmMutex, cmd, completed,
                 failedDeps, failMarks, abortMsg, exitCode>>

ReleaseSemaphore_OnlyOnSuccess(i) ==
  /\ running
  /\ tpc[i] = "release"
  /\ semaphore' = IF fails[i] THEN semaphore ELSE semaphore - 1
  /\ tpc' = [tpc EXCEPT ![i] = "done"]
  /\ UNCHANGED <<inputs, errorLines, pc, resolution, spawned, npmMutex, cmd, results, completed,
                 failedDeps, failMarks, abortMsg, exitCode>>

\* The deferred <-semaphore.
ReleaseSemaphore(i) ==
  /\ running
  /\ tpc[i] = "release"
  /\ semaphore' = semaphore - 1
  /\ tpc' = [tpc EXCEPT ![i] = "done"]
  /\ UNCHANGED <<inputs, errorLines, pc, resolution, spawned, npmMutex, cmd, results, completed,
                 failedDeps, failMarks, abortMsg, exitCode>>

\* ---- the collector --------------------------------------------------------
failedEntry_NoDevTag(result) == result.packageName

\* The entry put on the failed list: the name, with " (dev)" for a dev result of
\* installDependencies (InstallPackages has no dev label).
failedEntry(result) ==
  result.packageName \o (IF entry = "installDependencies" /\ result.isDev THEN " (dev)" ELSE "")

strictMode_EveryBatch == entry \in {"InstallPackages", "installDependencies"}

strictMode == entry = "installDependencies" /\ strict

collectLoopCondition_OffByOne == completed <= totalDeps

\* for completed < totalDeps
collectLoopCondition == completed < totalDeps

Collect_NoStrictExit ==
  /\ pc = "collect"
  /\ collectLoopCondition
  /\ results # <<>>
  /\ LET result == Head(results) IN
       /\ results' = Tail(results)
       /\ failedDeps' = IF ~result.success THEN Append(failedDeps, failedEntry(result))
                        ELSE failedDeps
       /\ completed' = completed + 1
       /\ UNCHANGED <<abortMsg, exitCode, pc>>
  /\ UNCHANGED <<inputs, errorLines, resolution, spawned, semaphore, npmMutex, tpc, cmd, failMarks>>

\* One iteration of the collect loop: result := <-results, and what follows.
Collect ==
  /\ pc = "collect"
  /\ collectLoopCondition
  /\ results # <<>>
  /\ LET result == Head(results) IN
       /\ results' = Tail(results)
       /\ IF ~result.success
            THEN /\ failedDeps' = Append(failedDeps, failedEntry(result))
                 /\ IF strictMode
                      THEN /\ abortMsg' = <<failedEntry(result)>>
                           /\ exitCode' = 1
                           /\ pc' = "exited"
                           /\ UNCHANGED completed
                      ELSE /\ completed' = completed + 1
                           /\ UNCHANGED <<abortMsg, exitCode, pc>>
            ELSE /\ completed' = completed + 1
                 /\ UNCHANGED <<failedDeps, abortMsg, exitCode, pc>>
  /\ UNCHANGED <<inputs, errorLines, resolution, spawned, semaphore, npmMutex, tpc, cmd, failMarks>>

\* The headline of a summary without failure, as each entry point words it.
successHeadline ==
  IF entry = "installDependencies" THEN "All dependencies installed successfully!"
  ELSE IF entry = "InstallPackages" THEN "All packages installed successfully!"
  ELSE "Package installed successfully!"

\* The N of the "k/N packages" line: the literal 1 in InstallPackage.
summaryTotal == IF entry = "InstallPackage" THEN 1 ELSE totalDeps

finalSummary_TotalFailure ==
  IF Len(failedDeps) > 0
    THEN [headline |-> IF Len(failedDeps) = summaryTotal THEN "Installation failed"
                       ELSE "Installation completed with warnings",
          count |-> Len(failedDeps), total |-> summaryTotal, listed |-> failedDeps]
    ELSE [headline |-> successHeadline,
          count |-> summaryTotal, total |-> summaryTotal, listed |-> <<>>]

\* What the final summary prints: the headline, the "k/N packages" line and the
\* names listed under it.
finalSummary ==
  IF Len(failedDeps) > 0
    THEN [headline |-> "Installation completed with warnings",
          count |-> Len(failedDeps), total |-> summaryTotal, listed |-> failedDeps]
    ELSE [headline |-> successHeadline,
          count |-> summaryTotal, total |-> summaryTotal, listed |-> <<>>]

\* The loop ends and the final summary is printed.
Summary ==
  /\ pc = "collect"
  /\ ~collectLoopCondition
  /\ pc' = "summary"
  /\ UNCHANGED <<inputs, errorLines, resolution, spawned, semaphore, npmMutex, tpc, cmd, results,
                 completed, failedDeps, failMarks, abortMsg, exitCode>>

\* installSingleDependency, error branch under npm: the line printed when the
\* stderr of the subprocess contains "404" or "Not Found".
notFoundLines(stderr, bun) ==
  IF ~bun /\ (Contains(stderr, "404") \/ Contains(stderr, "Not Found"))
    THEN <<"Package not found">> ELSE <<>>

\* InstallPackage: installSingleDependency runs in the calling goroutine, with no
\* semaphore and no lock; it builds the command, starts the spinner and calls
\* cmd.Run().
InstallSingle ==
  /\ pc = "single"
  /\ cmd' = [cmd EXCEPT ![1] = selectCommandSingle(deps[1], FALSE, useBun)]
  /\ tpc' = [tpc EXCEPT ![1] = "runSingle"]
  /\ pc' = "singleRun"
  /\ UNCHANGED <<inputs, errorLines, resolution, spawned, semaphore, npmMutex, results, completed,
                 failedDeps, failMarks, abortMsg, exitCode>>

\* cmd.Run() of the single install returns: the result line, the "Package not
\* found" line, the failed list, and the return to InstallPackage's summary.
InstallSingleReturns ==
  /\ pc = "singleRun"
  /\ tpc' = [tpc EXCEPT ![1] = "done"]
  /\ failedDeps' = IF fails[1] THEN Append(failedDeps, deps[1] \o "") ELSE failedDeps
  /\ failMarks' = IF fails[1] THEN failMarks \cup {1} ELSE failMarks
  /\ errorLines' = IF fails[1]
                     THEN [errorLines EXCEPT ![1] = notFoundLines(errOutput[1], useBun)]
                     ELSE errorLines
  /\ pc' = "summary"
  /\ UNCHANGED <<inputs, resolution, spawned, semaphore, npmMutex, cmd, results, completed,
                 abortMsg, exitCode>>

\* InitProject after installDependencies has returned (however it returned): the
\* "Project initialized!" banner and the next steps.
ReportInitialized ==
  /\ entry = "installDependencies"
  /\ pc \in {"noInput", "noBackend", "summary"}
  /\ pc' = "initialized"
  /\ UNCHANGED <<inputs, errorLines, resolution, spawned, semaphore, npmMutex, tpc, cmd, results,
                 completed, failedDeps, failMarks, abortMsg, exitCode>>

\* The entry point returns to Run and main returns: the process ends with status 0
\* without waiting for the goroutines that are still running.
ProcessReturns ==
  /\ running
  /\ pc \in IF entry = "installDependencies" THEN {"initialized"}
            ELSE {"noInput", "noBackend", "summary"}
  /\ exitCode' = 0
  /\ UNCHANGED <<inputs, errorLines, pc, resolution, spawned, semaphore, npmMutex, tpc,
                 cmd, results, completed, failedDeps, failMarks, abortMsg>>

TaskStep(i) ==
  \/ AcquireSemaphore(i)
  \/ LockNpmMutex(i)
  \/ CmdRunReturns(i)
  \/ SendResult(i)
  \/ ReleaseSemaphore(i)

Next ==
  \/ Prepare
  \/ Spawn
  \/ \E i \in Tasks : AcquireSemaphore(i)
  \/ \E i \in Tasks : LockNpmMutex(i)
  \/ \E i \in Tasks : CmdRunReturns(i)
  \/ \E i \in Tasks : SendResult(i)
  \/ \E i \in Tasks : ReleaseSemaphore(i)
  \/ Collect
  \/ Summary
  \/ InstallSingle
  \/ InstallSingleReturns
  \/ ReportInitialized
  \/ ProcessReturns

Spec == Init /\ [][Next]_vars

\* The failure path of installPackageParallel on every simulated stderr text.
DiagNext == \E i \in Tasks : CmdRunReturns(i)

DiagSpec == InitDiag /\ [][DiagNext]_vars

\* The enumerated batches alone, without the scaling scenarios.
SmallSpec == InitSmall /\ [][Next]_vars

\* The steps of a batch: the calling goroutine and the task goroutines.
BatchNext ==
  \/ Prepare
  \/ Spawn
  \/ \E i \in Tasks : TaskStep(i)
  \/ Collect
  \/ Summary
  \/ ReportInitialized
  \/ ProcessReturns

\* The scaling scenarios alone: batches of up to MaxPool packages, where tasks
\* contend for the permits and, under npm, for the lock.
PoolSpec == InitPool /\ [][BatchNext]_vars

\* ---- fairness: the Go scheduler runs every runnable goroutine, and every
\* subprocess terminates ---------------------------------------------------
Fairness ==
  /\ WF_vars(Prepare)
  /\ WF_vars(Spawn)
  /\ WF_vars(Collect)
  /\ WF_vars(Summary)
  /\ WF_vars(InstallSingle)
  /\ WF_vars(InstallSingleReturns)
  /\ WF_vars(ReportInitialized)
  /\ WF_vars(ProcessReturns)
  /\ \A i \in 1..(MaxLive + Len(PoolNames)) : WF_vars(i \in Tasks /\ TaskStep(i))

FairSpec == InitLive /\ [][Next]_vars /\ Fairness

\* The same scheduling assumptions for the steps of a batch.
BatchFairness ==
  /\ WF_vars(Prepare)
  /\ WF_vars(Spawn)
  /\ WF_vars(Collect)
  /\ WF_vars(Summary)
  /\ WF_vars(ReportInitialized)
  /\ WF_vars(ProcessReturns)
  /\ \A i \in 1..Len(PoolNames) : WF_vars(i \in Tasks /\ TaskStep(i))

\* The pool-exhaustion scenario under fair scheduling.
PermitSpec == InitPermits /\ [][BatchNext]_vars /\ BatchFairness

\* ---- vocabulary of the properties ---------------------------------------
\* Tasks that have acquired a permit and not yet released it.
permitHolders == {i \in Tasks : tpc[i] \in {"lock", "run", "send", "release"}}

\* Tasks blocked in semaphore <- struct{}{}.
waitingForPermit == {i \in Tasks : tpc[i] = "acquire"}

\* Permit holders whose subprocess has terminated (cmd.Run has returned).
holdersAfterRun == {i \in permitHolders : tpc[i] \in {"send", "release"}}

\* Tasks whose subprocess is in flight (cmd.Run has started and not returned).
inFlight == {i \in Tasks : tpc[i] = "run"}

\* Tasks whose in-flight subprocess is an npm invocation.
npmInFlight == {i \in inFlight : cmd[i][1] = "npm"}

batchStarted == pc \in {"spawn", "collect", "summary", "exited"}

\* C1: in every reachable state of a batch of N packages, the number of tasks
\* that hold a permit is at most min(4, N).
C1_PermitBound ==
  Cardinality(permitHolders) <= (IF totalDeps < 4 THEN totalDeps ELSE 4)

\* C1 witness: a batch of more than 4 packages with 4 permits held and a task waiting.
C1_Witness ==
  /\ totalDeps > 4
  /\ Cardinality(permitHolders) = 4
  /\ \E i \in Tasks : tpc[i] = "acquire"

\* C2: with the traditional backend (useBun = FALSE), at most one task of the batch
\* is between the lock acquisition and the lock release, so no two subprocess
\* runs overlap.
C2_NpmRunsNeverOverlap ==
  (batchStarted /\ ~useBun)
    => /\ Cardinality(inFlight) <= 1
       /\ \A i \in inFlight : npmMutex = i

\* C2 witness: under npm one task runs its subprocess while another, holding a
\* permit, waits for the lock.
C2_Witness ==
  /\ batchStarted /\ ~useBun
  /\ \E i, j \in Tasks : tpc[i] = "run" /\ tpc[j] = "lock" /\ npmMutex = i

\* C3: whatever the backend and the package list, at most one npm invocation is
\* in flight at any instant, the nquickdev override under bun included.
C3_AtMostOneNpmInFlight ==
  Cardinality(npmInFlight) <= 1

\* C4: in strict mode, the step in which the collector receives a result with
\* success = false ends the process with exit code 1: completed is not advanced,
\* no task is waited for or touched, and once the process has exited no further
\* result is consumed.
C4_StrictExitsOnFirstFailure ==
  [][/\ (strictMode /\ pc = "collect" /\ results # <<>> /\ results' = Tail(results)
           /\ ~Head(results).success)
          => (/\ exitCode' = 1
              /\ pc' = "exited"
              /\ completed' = completed
              /\ Len(failedDeps') = 1
              /\ tpc' = tpc /\ semaphore' = semaphore /\ npmMutex' = npmMutex)
     /\ (exitCode = 1 => results' = results /\ completed' = completed /\ tpc' = tpc)]_vars

\* C4 witness: the process has exited with code 1 while a task's subprocess is
\* still in flight and a result already sent was never consumed.
C4_Witness ==
  /\ strictMode /\ exitCode = 1
  /\ results # <<>>
  /\ \E j \in Tasks : tpc[j] = "run"

\* Entries whose subprocess fails / succeeds.
failing == {i \in Tasks : fails[i]}
succeeding == {i \in Tasks : ~fails[i]}

\* C5: in non-strict mode, with every subprocess terminating, a started batch
\* eventually reaches the final summary with all N results collected and every
\* entry attempted, whatever the individual outcomes.
C5_NonStrictBatchCompletes ==
  (pc = "spawn" /\ ~strictMode)
    ~> (/\ pc = "summary"
        /\ completed = totalDeps
        /\ \A i \in Tasks : tpc[i] \in {"release", "done"} /\ cmd[i] # <<>>)

\* C5 witness: a non-strict batch reached its summary although its first package failed
\* and a later one succeeded.
C5_Witness ==
  /\ pc = "summary" /\ ~strictMode /\ entry # "InstallPackage"
  /\ totalDeps >= 2 /\ fails[1] /\ ~fails[totalDeps]
  /\ completed = totalDeps

\* C6: in every completed non-strict batch, the failed list and the packages that
\* succeeded partition the N entries: |failed| + succeeded = N.
C6_FailedPlusSucceededIsN ==
  (pc = "summary" /\ ~strictMode /\ entry # "InstallPackage")
    => /\ Len(failedDeps) + Cardinality(succeeding) = totalDeps
       /\ completed = totalDeps

\* C6 witness: a completed non-strict batch with one failure and one success.
C6_Witness ==
  /\ pc = "summary" /\ ~strictMode /\ entry # "InstallPackage"
  /\ Cardinality(failing) = 1 /\ Cardinality(succeeding) = 1
  /\ Len(failedDeps) = 1

\* The strict scenario [A(fail), B(success), C(success)].
strictABC ==
  /\ strictMode
  /\ deps = <<"A", "B", "C">> /\ devDeps = <<>>
  /\ fails = <<TRUE, FALSE, FALSE>>

\* C7: with [A, B, C] submitted in strict mode, A failing and B, C succeeding, every
\* execution of the started batch ends with exit code 1 naming exactly package A;
\* the batch never reaches the summary and never names B or C.
C7_StrictABCExitsNamingA ==
  /\ [](strictABC => /\ pc # "summary"
                      /\ (exitCode # -1 /\ spawned > 0) => exitCode = 1 /\ abortMsg = <<"A">>)
  /\ ((strictABC /\ pc = "spawn") ~> (exitCode = 1 /\ abortMsg = <<"A">>))

\* C7 witness: the process exited naming A while neither B nor C had completed.
C7_Witness ==
  /\ strictABC /\ exitCode = 1 /\ abortMsg = <<"A">>
  /\ tpc[2] \in {"acquire", "lock", "run"} /\ tpc[3] \in {"acquire", "lock", "run"}

\* C8: in a strict batch that fails, no failure marker or diagnostic other than
\* that of the first encountered failure is printed before the process exits.
C8_OnlyFirstFailurePrinted ==
  (strictMode /\ exitCode = 1) => Cardinality(failMarks) <= 1

\* C9: a batch of N = 0 packages launches no task, consumes no result, never
\* blocks (the spawn loop and the collect loop fall through), and reports
\* total 0 with an empty failed list.
C9_EmptyBatchIsNoOp ==
  (totalDeps = 0 /\ batchStarted)
    => /\ spawned = 0 /\ completed = 0 /\ results = <<>> /\ failedDeps = <<>>
       /\ exitCode \in {-1, 0}
       /\ pc = "spawn" => ENABLED Spawn
       /\ pc = "collect" => (ENABLED Summary /\ ~ENABLED Collect)

\* C9 witness: an empty batch reached its summary.
C9_Witness ==
  totalDeps = 0 /\ pc = "summary" /\ completed = 0 /\ failedDeps = <<>>

\* C10: with the fast backend selected, the command built for 'nquickdev' is
\* npm install, never bun add, and the command built for any other package is
\* bun add.
C10_NamedExceptionUsesNpm ==
  useBun =>
    \A i \in Tasks :
      cmd[i] # <<>> =>
        IF packageNameOf(i) = "nquickdev"
          THEN cmd[i][1] = "npm" /\ cmd[i][2] = "install"
          ELSE cmd[i][1] = "bun" /\ cmd[i][2] = "add"

\* C10 witness: under bun, one batch issued npm install nquickdev and bun add xypriss.
C10_Witness ==
  /\ useBun
  /\ \E i, j \in Tasks :
       /\ cmd[i] = <<"npm", "install", "nquickdev">>
       /\ cmd[j] = <<"bun", "add", "xypriss">>

\* Tasks of the init-time batch that have built their command.
commandBuilt == {i \in Tasks : cmd[i] # <<>>}

\* The dev flag of a command line, if it carries one.
hasDevFlag(argv) ==
  \E k \in 1..Len(argv) : argv[k] \in {"--save-dev", "-d"}

\* C11: in the init-time batch, the command issued for a dev dependency carries
\* the dev flag (npm install --save-dev / bun add -d) and the command issued
\* for a regular dependency does not.
C11_DevFlagInCommand ==
  entry = "installDependencies"
    => \A i \in commandBuilt : hasDevFlag(cmd[i]) <=> isDevTask(i)

\* ---- backend resolution claims ----------------------------------------
\* No goroutine was launched and no command was built.
noTaskStarted == spawned = 0 /\ \A i \in Tasks : tpc[i] = "unstarted" /\ cmd[i] = <<>>

\* The resolution ended without a usable tool.
noBackend == ~useBun /\ npmLookup = "absent"

\* Auto mode at init: bun was not found, installBun failed, npm was found.
provisionFailedNpmPresent ==
  /\ entry = "installDependencies" /\ mode = ""
  /\ bunLookup = "absent" /\ bunInstall = "failed" /\ npmLookup = "found"

\* C12: with mode = auto, bun absent, the installBun attempt failing and npm present,
\* the resolution yields npm and the batch proceeds: every command is an npm
\* command, and the process exits only through a package failure in strict mode.
C12_ProvisionFailureFallsBackToNpm ==
  provisionFailedNpmPresent
    => /\ ~useBun
       /\ pc \in {"spawn", "collect", "summary", "exited", "initialized"}
       /\ \A i \in commandBuilt : cmd[i] = <<"npm", "install", packageNameOf(i)>>
       /\ pc \in {"summary", "initialized"} => completed = totalDeps
       /\ exitCode \notin {-1, 0}
            => /\ strict /\ exitCode = 1
               /\ \E i \in failing : abortMsg = <<failedEntry(installResult(i))>>

\* C12 witness: after the failed installBun a batch of two packages completed on npm.
C12_Witness ==
  /\ provisionFailedNpmPresent
  /\ pc = "summary" /\ totalDeps = 2 /\ completed = 2 /\ failedDeps = <<>>
  /\ \A i \in Tasks : cmd[i][1] = "npm"

\* Auto mode of a batch entry point, with bun not found on the search path.
autoBunAbsent(e) == entry = e /\ mode = "" /\ bunLookup = "absent"

\* C13 (as stated): with mode = auto and bun absent, both batch entry points,
\* installDependencies and InstallPackages, attempt the auto-provision of bun.
C13_ProvisionInEveryEntryPoint ==
  (autoBunAbsent("installDependencies") \/ autoBunAbsent("InstallPackages"))
    => bunInstall # "notrun"

\* What the resolution guarantees about installBun.
provisionRules ==
  /\ autoBunAbsent("installDependencies") => bunInstall \in {"ok", "failed"}
  /\ bunInstall # "notrun" => autoBunAbsent("installDependencies")
  /\ bunInstall = "ok"
       => /\ useBun /\ npmLookup = "unchecked" /\ pc # "noBackend"
          /\ \A i \in commandBuilt : cmd[i] = selectCommand(packageNameOf(i), TRUE)
  /\ bunInstall = "failed" => ~useBun /\ npmLookup \in {"found", "absent"}
  /\ autoBunAbsent("InstallPackages")
       => ~useBun /\ bunInstall = "notrun" /\ npmLookup \in {"found", "absent"}
  /\ (mode = "" /\ bunLookup = "absent" /\ noBackend)
       => noTaskStarted /\ pc \in {"noBackend", "initialized"}

\* C13 (amended): with mode = auto and bun absent, the init-time installDependencies
\* attempts installBun exactly once before falling back to npm, and uses bun if
\* the attempt succeeds; the ad-hoc InstallPackages never attempts it and falls
\* back to npm directly; in both, no task is started when npm is absent too.
C13_ProvisionOnlyAtInit ==
  /\ []provisionRules
  /\ [][bunInstall # "notrun" => bunInstall' = bunInstall]_vars

\* C13 witness: at init, bun was absent, installBun succeeded, and a task runs bun add.
C13_Witness ==
  /\ autoBunAbsent("installDependencies") /\ bunInstall = "ok" /\ useBun
  /\ \E i \in inFlight : cmd[i] = <<"bun", "add", "xypriss">>

\* C14: with mode = 'n', bun is not even looked up; if npm is not resolvable no
\* task is ever started, and if it is, every task of the batch runs npm install.
C14_ForcedNpm ==
  mode = "n"
    => /\ ~useBun /\ bunLookup = "unchecked" /\ bunInstall = "notrun"
       /\ npmLookup = "absent" => noTaskStarted /\ pc \in {"noBackend", "initialized"}
       /\ commandBuilt # {} => npmLookup = "found"
       /\ \A i \in commandBuilt : cmd[i] = <<"npm", "install", packageNameOf(i)>>

\* C14 witness: a forced-npm batch in which two tasks built npm install commands.
C14_Witness ==
  /\ mode = "n" /\ npmLookup = "found"
  /\ Cardinality(commandBuilt) = 2
  /\ \A i \in commandBuilt : cmd[i][1] = "npm"

\* C15: with mode = 'b', a resolvable bun is used; an absent bun makes the batch
\* fall back to npm when npm is resolvable, without any installBun attempt, and
\* start no task when it is not.
C15_ForcedBun ==
  mode = "b"
    => /\ bunInstall = "notrun"
       /\ batchStarted \/ pc = "noBackend" => bunLookup # "unchecked"
       /\ bunLookup = "found"
            => /\ useBun /\ npmLookup = "unchecked" /\ pc # "noBackend"
               /\ \A i \in commandBuilt : cmd[i] = selectCommand(packageNameOf(i), TRUE)
       /\ bunLookup = "absent"
            => /\ ~useBun /\ npmLookup \in {"found", "absent"}
               /\ npmLookup = "found"
                    => /\ pc # "noBackend"
                       /\ \A i \in commandBuilt :
                            cmd[i] = <<"npm", "install", packageNameOf(i)>>
               /\ npmLookup = "absent"
                    => noTaskStarted /\ pc \in {"noBackend", "initialized"}

\* C15 witness: forced bun, bun absent, npm found: a task runs npm install.
C15_Witness ==
  /\ mode = "b" /\ bunLookup = "absent" /\ npmLookup = "found" /\ bunInstall = "notrun"
  /\ \E i \in inFlight : cmd[i][1] = "npm"

\* C16: when the init-time resolution finds no backend, no task is started and the
\* process ends abnormally: it never goes on to report the project as initialized.
C16_NoBackendNeverReportsInitialized ==
  (entry = "installDependencies" /\ noBackend)
    => noTaskStarted /\ pc # "initialized"

\* ---- lock and permit claims ---------------------------------------------
\* Tasks whose installPackageParallel call has returned.
returned == {i \in Tasks : tpc[i] \in {"send", "release", "done"}}

\* C17: a task holds npmMutex exactly while its subprocess call is in progress:
\* under npm every task inside cmd.Run() is the holder, a task that has returned
\* from installPackageParallel, having succeeded or failed, is never the holder,
\* and once every task has returned the lock is free.
C17_LockHeldForRunThenReleased ==
  /\ npmMutex \in {0} \cup Tasks
  /\ \A i \in Tasks : npmMutex = i => tpc[i] = "run"
  /\ ~useBun => \A i \in inFlight : npmMutex = i
  /\ \A i \in returned : npmMutex # i
  /\ returned = Tasks => npmMutex = 0

\* C17 witness: under npm a task whose subprocess failed has returned, and the
\* lock it held is now held by another task running its subprocess.
C17_Witness ==
  /\ ~useBun
  /\ \E i \in returned, j \in inFlight : fails[i] /\ i \in failMarks /\ npmMutex = j

\* C18: with bun selected no task ever waits for or holds npmMutex, so the only
\* limit on the subprocesses in flight is the permit pool: at most min(4, N),
\* a number that is reached.
C18_BunTasksNeverLock ==
  useBun
    => /\ npmMutex = 0
       /\ \A i \in Tasks : tpc[i] # "lock"
       /\ Cardinality(inFlight) <= (IF totalDeps < 4 THEN totalDeps ELSE 4)

\* C18 witness: under bun, four bun subprocesses of a batch of five are in flight
\* at once while the fifth task waits for a permit.
C18_Witness ==
  /\ useBun /\ totalDeps = 5 /\ npmMutex = 0
  /\ Cardinality(inFlight) = 4
  /\ \A i \in inFlight : cmd[i][1] = "bun"
  /\ \E i \in Tasks : tpc[i] = "acquire"

\* ---- attempts and results -------------------------------------------------
batchEntry == entry \in {"InstallPackages", "installDependencies"}

\* Tasks that have sent their result.
sent == {i \in Tasks : tpc[i] \in {"release", "done"}}

occurrences(seq, x) == Cardinality({k \in 1..Len(seq) : seq[k] = x})

\* The task a result of the channel comes from.
senderOf(result) ==
  IF result.isDev THEN Len(deps) + result.index + 1 ELSE result.index + 1

\* One command per entry, duplicates included; a finished subprocess is never
\* run again; the channel holds results of distinct tasks that have sent; in a
\* non-strict batch every result sent is either buffered or counted.
oneAttemptOneResult ==
  /\ \A i \in Tasks :
       /\ cmd[i] # <<>> <=> tpc[i] \notin {"unstarted", "acquire"}
       /\ cmd[i] # <<>> => cmd[i] = selectCommand(packageNameOf(i), useBun)
       /\ i \in failMarks => fails[i] /\ tpc[i] \in {"send", "release", "done"}
  /\ \A a \in 1..Len(results) :
       /\ senderOf(results[a]) \in sent
       /\ results[a] = installResult(senderOf(results[a]))
       /\ \A b \in 1..Len(results) : senderOf(results[a]) = senderOf(results[b]) => a = b
  /\ ~strictMode => completed + Len(results) = Cardinality(sent)
  /\ (~strictMode /\ pc = "summary")
       => /\ completed = totalDeps /\ results = <<>> /\ sent = Tasks
          /\ \A i \in failing :
               occurrences(failedDeps, failedEntry(installResult(i)))
                 = Cardinality({j \in failing : failedEntry(installResult(j))
                                                  = failedEntry(installResult(i))})
          /\ Len(failedDeps) = Cardinality(failing)

\* A task never goes back before its subprocess call, a built command is never
\* rebuilt, and the collector takes one result at a time from the head.
noRetryNoRecount ==
  /\ \A i \in Tasks :
       /\ tpc[i] \in {"send", "release", "done"} => tpc'[i] \in {"send", "release", "done"}
       /\ cmd[i] # <<>> => cmd'[i] = cmd[i]
  /\ completed' # completed => completed' = completed + 1 /\ results' = Tail(results)

\* C19: in a batch every entry gets exactly one subprocess attempt, with no retry
\* after a failure and duplicate names attempted independently, and in a completed
\* non-strict batch the collector has consumed exactly N results, one per entry,
\* none lost and none consumed twice.
C19_OneAttemptOneResultPerEntry ==
  /\ [](batchEntry => oneAttemptOneResult)
  /\ [][batchEntry => noRetryNoRecount]_vars

\* C19 witness: a completed non-strict batch of two entries with the same name, one
\* failing and one succeeding: two commands were run, two results consumed, one
\* failure listed.
C19_Witness ==
  /\ batchEntry /\ ~strictMode /\ pc = "summary"
  /\ totalDeps = 2 /\ packageNameOf(1) = packageNameOf(2)
  /\ fails[1] /\ ~fails[2]
  /\ cmd[1] # <<>> /\ cmd[2] = cmd[1]
  /\ completed = 2 /\ Len(failedDeps) = 1

\* ---- diagnostic claims ----------------------------------------------------
\* Tasks that have printed their failure report.
reported == {i \in Tasks : i \in failMarks /\ tpc[i] \in {"send", "release", "done"}}

\* The non-empty lines of a stderr text, blanks around them removed.
stderrLines(text) ==
  LET lines == Split(text)
  IN SelectSeq([k \in 1..Len(lines) |-> TrimSpace(lines[k])], isNonEmpty)

warningLine(line) == Contains(ToLower(line), "warn")

markerLine(line) == \E m \in errorMarkers : Contains(line, m)

errorOnly(line) == markerLine(line) /\ ~warningLine(line)

inSeq(seq, x) == \E k \in 1..Len(seq) : seq[k] = x

\* C20: when the stderr of a failed subprocess holds a warning line and error-marker
\* lines that are not warnings, the diagnostic printed is the first five of those
\* marker lines, in order, and holds no warning line.
C20_MarkerLinesWithoutWarnings ==
  \A i \in reported :
    LET lines == stderrLines(errOutput[i])
        markers == SelectSeq(lines, errorOnly)
    IN ((\E k \in 1..Len(lines) : warningLine(lines[k])) /\ markers # <<>>)
         => /\ errorLines[i] = firstLines(markers, 5)
            /\ \A k \in 1..Len(errorLines[i]) : ~warningLine(errorLines[i][k])
            /\ Len(markers) <= 5 => \A k \in 1..Len(markers) : inSeq(errorLines[i], markers[k])

\* C20 witness: the stderr of the example (a deprecation warning, then two ERR!
\* lines) gave a diagnostic of exactly the two ERR! lines.
C20_Witness ==
  /\ 1 \in reported
  /\ errOutput[1]
       = "npm WARN deprecated foo\nnpm ERR! code ENOENT\nnpm ERR! enoent no such file\n"
  /\ errorLines[1] = <<"npm ERR! code ENOENT", "npm ERR! enoent no such file">>

\* C21: whatever the stderr of a failed subprocess, no line of the diagnostic printed
\* contains "warn" in any letter case, the first-3-lines fallback included.
C21_NoWarningLineInDiagnostic ==
  \A i \in reported :
    \A k \in 1..Len(errorLines[i]) : ~warningLine(errorLines[i][k])

\* The lines of a stderr text that carry "warn" as written in the documentation.
warnMarked(line) == Contains(line, "warn")

\* C22 (as stated): a line containing "warn" is detected as an error-related line
\* like the lines containing ERR!, 404, ENOENT, ENOTEMPTY or code: when the text has
\* at most five such lines, every line containing "warn" is displayed.
C22_WarnLinesDisplayed ==
  \A i \in reported :
    LET lines == stderrLines(errOutput[i])
        detected(line) == markerLine(line) \/ warnMarked(line)
    IN Len(SelectSeq(lines, detected)) <= 5
         => \A k \in 1..Len(lines) : warnMarked(lines[k]) => inSeq(errorLines[i], lines[k])

\* C22 (amended): the markers detected are ERR!, error, 404, ENOENT, ENOTEMPTY and
\* code; a line containing "warn" in any letter case is never retained by the marker
\* scan, and is displayed only when the scan retains no line and the diagnostic is
\* the first three non-empty lines.
C22_WarnLinesOnlyByFallback ==
  \A i \in reported :
    LET lines == stderrLines(errOutput[i])
        markers == SelectSeq(lines, errorOnly)
    IN /\ markers # <<>> => \A k \in 1..Len(errorLines[i]) : errorOnly(errorLines[i][k])
       /\ \A k \in 1..Len(errorLines[i]) :
            warningLine(errorLines[i][k])
              => markers = <<>> /\ errorLines[i] = firstLines(lines, 3)

\* C22 witness: a lower-case "npm warn" line that carries the marker ENOENT was left
\* out of a diagnostic made of the ERR! line that follows it.
C22_Witness ==
  /\ 1 \in reported
  /\ errOutput[1] = "npm warn tar ENOENT\nnpm ERR! code ENOENT\n"
  /\ errorLines[1] = <<"npm ERR! code ENOENT">>

\* A batch entry point called without --mode, after its backend resolution.
unspecifiedMode == batchEntry /\ mode = "" /\ pc \in {"spawn", "collect", "summary", "exited"}

\* C23 (as stated): when no --mode is given npm is the backend, even when bun is
\* available.
C23_NpmByDefault ==
  unspecifiedMode => ~useBun /\ \A i \in commandBuilt : cmd[i][1] = "npm"

\* C23 (amended): when no --mode is given the backend is detected: bun is looked up
\* first and used whenever it is found (or, at init, installed), and npm is used
\* only when bun is absent.
C23_BunPreferredByDefault ==
  unspecifiedMode
    => /\ bunLookup \in {"found", "absent"}
       /\ bunLookup = "found" => useBun /\ npmLookup = "unchecked"
       /\ ~useBun => bunLookup = "absent" /\ npmLookup = "found" /\ bunInstall # "ok"
       /\ \A i \in commandBuilt : cmd[i] = selectCommand(packageNameOf(i), useBun)

\* C23 witness: an ad-hoc install without --mode found bun and runs bun add.
C23_Witness ==
  /\ entry = "InstallPackages" /\ mode = "" /\ bunLookup = "found" /\ useBun
  /\ \E i \in inFlight : cmd[i] = <<"bun", "add", "xypriss">>

\* ---- permits, spawning and results ----------------------------------------
\* C24 (as stated): every task that holds a permit after its subprocess has
\* terminated eventually releases it (from some moment on no such task holds a
\* permit any more), and once all tasks have finished every permit is free.
C24_EveryHolderEventuallyReleases ==
  /\ <>[](holdersAfterRun = {})
  /\ []((\A i \in Tasks : tpc[i] = "done") => semaphore = 0)

\* C24 (amended): the permits taken from the pool are exactly those of the tasks
\* between their acquisition and their deferred release, whatever the outcome of
\* their subprocess; every task that waits for a permit eventually gets one, also
\* when every permit was taken by tasks that failed; once all tasks have finished
\* every permit is free; and a permit that is still taken when the batch has been
\* reported belongs to a task that has sent its result and has only its deferred
\* release left, which the end of the process can pre-empt.
C24_PermitsReleasedWhileProcessLives ==
  /\ [](semaphore = Cardinality(permitHolders))
  /\ (waitingForPermit # {}) ~> (waitingForPermit = {})
  /\ []((\A i \in Tasks : tpc[i] = "done") => semaphore = 0)
  /\ [](pc \in {"summary", "initialized"} => \A i \in permitHolders : tpc[i] = "release")

\* C24 witness: all five tasks have got a permit from the pool of four: one task,
\* whose install failed, has released its permit, and the four others hold one.
C24_Witness ==
  /\ running /\ ~strictMode /\ totalDeps = maxConcurrentLimit + 1
  /\ waitingForPermit = {} /\ spawned = totalDeps
  /\ Cardinality(permitHolders) = maxConcurrentLimit
  /\ \E i \in Tasks : tpc[i] = "done" /\ fails[i] /\ i \in failMarks

\* A step of the calling goroutine between the first "go func" and the end of the
\* collect loop.
schedulerStep == Spawn \/ Collect \/ Summary

\* The calling goroutine waits in result := <-results on an empty channel.
waitingForResult == pc = "collect" /\ collectLoopCondition /\ results = <<>>

\* C25: a batch has launched all N tasks before its collector receives the first
\* result; launching a task never waits for a permit (the next "go func" can run
\* even when every permit is taken, and permits are only ever held by launched
\* tasks); the calling goroutine can always step unless it waits on the empty
\* result channel.
C25_AllSpawnedBeforeCollecting ==
  /\ (batchEntry /\ (completed > 0 \/ failedDeps # <<>> \/ ENABLED Collect))
       => spawned = totalDeps
  /\ pc = "spawn" => ENABLED Spawn /\ completed = 0
  /\ semaphore <= spawned
  /\ (pc \in {"spawn", "collect"} /\ ~ENABLED schedulerStep) => waitingForResult

\* C25 witness: four launched tasks hold all four permits while the calling
\* goroutine is about to launch the fifth.
C25_Witness ==
  /\ pc = "spawn" /\ spawned = maxConcurrentLimit /\ spawned < totalDeps
  /\ semaphore = maxConcurrent /\ maxConcurrent = maxConcurrentLimit
  /\ ENABLED Spawn

\* ---- the failed list ------------------------------------------------------
\* The name under which an entry is listed as failed.
taggedName(i) == packageNameOf(i) \o (IF isDevTask(i) THEN " (dev)" ELSE "")

nonStrictInit == entry = "installDependencies" /\ ~strict

\* The sequences that list every element of a set once.
orderings(S) ==
  {o \in [1..Cardinality(S) -> S] : \A a, b \in 1..Cardinality(S) : o[a] = o[b] => a = b}

\* The collector takes the head of the channel; a failure is appended to the end of
\* the failed list under its tagged name, a success leaves the list alone, and
\* nothing else changes the list.
appendedOnReception ==
  IF results # <<>> /\ results' = Tail(results)
    THEN LET i == senderOf(Head(results))
         IN failedDeps' = IF fails[i] THEN Append(failedDeps, taggedName(i)) ELSE failedDeps
    ELSE failedDeps' = failedDeps

\* C26: in a completed non-strict init batch the failed list names exactly the
\* entries whose subprocess failed, once each, with " (dev)" exactly on the entries
\* of devDependencies, and it was filled in the order in which the collector received
\* the results.
C26_FailedListInReceptionOrder ==
  /\ []((nonStrictInit /\ pc = "summary")
          => \E o \in orderings(failing) :
               failedDeps = [k \in 1..Cardinality(failing) |-> taggedName(o[k])])
  /\ [][nonStrictInit => appendedOnReception]_vars

\* C26 witness: a dependency and a dev dependency both failed and the result of
\* the dev dependency was received first: the completed batch lists it first.
C26_Witness ==
  /\ nonStrictInit /\ pc = "summary"
  /\ Len(deps) = 1 /\ Len(devDeps) = 1 /\ deps[1] # devDeps[1]
  /\ fails[1] /\ fails[2]
  /\ failedDeps = <<devDeps[1] \o " (dev)", deps[1]>>

\* ---- the task boundary ----------------------------------------------------
\* Tasks launched by the batch.
started == {i \in Tasks : tpc[i] # "unstarted"}

\* The results of task i in the channel.
resultsOf(i) == {a \in 1..Len(results) : senderOf(results[a]) = i}

\* Every result in the channel is the one result of a task that has sent, and says
\* Success exactly when the subprocess of its task returned no error.
oneResultPerTask ==
  /\ \A a \in 1..Len(results) : results[a].success = ~fails[senderOf(results[a])]
  /\ \A i \in Tasks : Cardinality(resultsOf(i)) <= (IF i \in sent THEN 1 ELSE 0)

\* The return of a subprocess, with or without error, takes its task to the send of
\* its result and leaves the process running; the send puts one result of the task
\* on the channel; a task that has sent never sends again; and the process exits
\* with a failure status only when the collector of a strict batch receives a
\* Failure.
failureIsData ==
  /\ \A i \in Tasks :
       /\ (tpc[i] = "run" /\ tpc'[i] # "run")
            => tpc'[i] = "send" /\ exitCode' = exitCode /\ pc' = pc
       /\ (tpc[i] = "send" /\ tpc'[i] # "send")
            => /\ tpc'[i] = "release"
               /\ Len(results') = Len(results) + 1
               /\ senderOf(results'[Len(results')]) = i
               /\ results'[Len(results')].success = ~fails[i]
       /\ i \in sent => tpc'[i] \in {"release", "done"}
  /\ Len(results') > Len(results) => \E i \in Tasks : tpc[i] = "send" /\ tpc'[i] = "release"
  /\ (exitCode' # exitCode /\ exitCode' # 0)
       => /\ strictMode /\ results # <<>> /\ ~Head(results).success
          /\ results' = Tail(results)

\* C27: a launched task puts exactly one result on the channel, provided the
\* process lives that long: Success iff its subprocess returned without error,
\* Failure otherwise; a failing subprocess never ends the process or its task
\* before that result is sent. (Having sent and having exited are both permanent,
\* so "again and again every launched task has sent or the process is over" says
\* that each launched task eventually sends or the process ends first.)
C27_EveryTaskYieldsOneResult ==
  /\ [](batchEntry => oneResultPerTask)
  /\ [][batchEntry => failureIsData]_vars
  /\ []<>(started \subseteq sent \/ ~running)

\* C27 witness: in a running non-strict batch a task whose subprocess failed has
\* put its Failure result on the channel, while another task is still to finish.
C27_Witness ==
  /\ batchEntry /\ ~strictMode /\ running
  /\ \E i \in sent : /\ fails[i]
                     /\ \E a \in resultsOf(i) : ~results[a].success
                     /\ \E j \in started : j # i /\ j \notin sent

\* ---- size and presence of the diagnostic ----------------------------------
\* No line of the stderr text is an error-marker line that is not a warning.
fallbackCase(text) ==
  LET lines == stderrLines(text) IN \A k \in 1..Len(lines) : ~errorOnly(lines[k])

\* seq is the start of full, up to n elements.
isPrefixUpTo(seq, full, n) ==
  /\ Len(seq) = (IF Len(full) < n THEN Len(full) ELSE n)
  /\ \A k \in 1..Len(seq) : seq[k] = full[k]

\* C28: the diagnostic printed for a failed subprocess has at most 5 lines, and when
\* no error-marker line was retained it is the first 3 non-empty lines of stderr (all
\* of them if there are fewer), in their order.
C28_DiagnosticSizeLimits ==
  \A i \in reported :
    /\ Len(errorLines[i]) <= 5
    /\ fallbackCase(errOutput[i]) => isPrefixUpTo(errorLines[i], stderrLines(errOutput[i]), 3)

\* C28 witness: a failed subprocess wrote more than three non-empty lines, none of
\* them retained as an error line: three lines are printed.
C28_Witness ==
  \E i \in reported :
    /\ fallbackCase(errOutput[i])
    /\ Len(stderrLines(errOutput[i])) > 3
    /\ Len(errorLines[i]) = 3

\* C29: when the stderr of a failed subprocess has a non-empty line the diagnostic
\* printed is not empty, with or without an error marker in the text, and the task
\* goes on to report an ordinary Failure while the process keeps running.
C29_DiagnosticNeverEmpty ==
  \A i \in reported :
    /\ stderrLines(errOutput[i]) # <<>> => errorLines[i] # <<>>
    /\ ~installResult(i).success /\ tpc[i] = "send" /\ running

\* C29 witness: the stderr of a failed subprocess holds no error marker at all, and
\* its first line is printed.
C29_Witness ==
  \E i \in reported :
    LET lines == stderrLines(errOutput[i]) IN
      /\ lines # <<>>
      /\ \A k \in 1..Len(lines) : ~markerLine(lines[k])
      /\ errorLines[i] # <<>>
      /\ errorLines[i][1] = lines[1]

\* ---- the final report -----------------------------------------------------
allSucceeded ==
  finalSummary.headline \in {"All dependencies installed successfully!",
                             "All packages installed successfully!"}

partialFailure == finalSummary.headline = "Installation completed with warnings"

\* C30: a completed batch reports one of two outcomes: "all installed successfully"
\* exactly when the failed list is empty, which is when no subprocess failed, and
\* otherwise "completed with warnings" with the count and the names of the failed
\* entries; a batch of N > 0 entries that all failed is reported in that second way,
\* with N/N and all N entries listed.
C30_BinaryFinalReport ==
  (batchEntry /\ pc = "summary")
    => /\ allSucceeded # partialFailure
       /\ allSucceeded <=> failedDeps = <<>>
       /\ allSucceeded <=> failing = {}
       /\ finalSummary.total = totalDeps
       /\ allSucceeded => finalSummary.count = totalDeps
       /\ partialFailure
            => /\ finalSummary.count = Cardinality(failing)
               /\ finalSummary.listed = failedDeps
       /\ (totalDeps > 0 /\ failing = Tasks)
            => /\ partialFailure
               /\ finalSummary.count = totalDeps
               /\ Len(finalSummary.listed) = totalDeps
               /\ \A i \in Tasks : inSeq(finalSummary.listed, failedEntry(installResult(i)))

\* C30 witness: both entries of a non-strict batch of two failed, and the batch
\* completed with the report "completed with warnings", 2/2.
C30_Witness ==
  /\ batchEntry /\ ~strictMode /\ pc = "summary"
  /\ totalDeps = 2 /\ failing = Tasks
  /\ partialFailure /\ finalSummary.count = 2 /\ Len(finalSummary.listed) = 2

\* ---- the resolved backend -------------------------------------------------
\* Tasks that have read the backend: their command is built.
observers == {i \in Tasks : cmd[i] # <<>>}

\* The backend a task acted on: it built the command of that backend for its
\* package, and it goes through npmMutex exactly when the backend is npm.
observedBackend(i, bun) ==
  /\ cmd[i] = selectCommand(packageNameOf(i), bun)
  /\ tpc[i] = "lock" => ~bun

\* C31: the backend is resolved before the first task of a batch is launched and
\* never changes afterwards, so every task of the batch acts on one and the same
\* value of useBun.
C31_BackendResolvedOnce ==
  /\ [](batchEntry
          => /\ (spawned > 0 \/ observers # {}) => pc # "start"
             /\ \A i \in observers : observedBackend(i, useBun))
  /\ [][(batchEntry /\ pc # "start") => useBun' = useBun]_vars

\* C31 witness: bun was resolved, and both tasks of a batch of two distinct
\* packages have built their command from it while the collector waits.
C31_Witness ==
  /\ batchEntry /\ useBun /\ pc = "collect" /\ totalDeps = 2
  /\ observers = Tasks
  /\ packageNameOf(1) # packageNameOf(2)
  /\ \E i \in Tasks : cmd[i][1] = "bun"

\* ---- shared state ---------------------------------------------------------
\* A step of the goroutine of task i.
workerStep(i) == tpc[i] # "unstarted" /\ tpc'[i] # tpc[i]

\* What belongs to task j alone: its position, its command, its stderr lines and
\* its failure report.
taskLocalUnchanged(j) ==
  /\ tpc'[j] = tpc[j] /\ cmd'[j] = cmd[j] /\ errorLines'[j] = errorLines[j]
  /\ j \in failMarks' <=> j \in failMarks

\* A worker step writes, besides the state of its own task, only the semaphore, the
\* lock and the result channel; the failed list and the counter are written by the
\* collector alone, in a step that receives a result and moves no worker.
singleWriter ==
  /\ \A i \in Tasks :
       workerStep(i)
         => /\ UNCHANGED <<failedDeps, completed, abortMsg, pc, exitCode, spawned, resolution,
                           inputs>>
            /\ \A j \in Tasks \ {i} : taskLocalUnchanged(j)
  /\ (failedDeps' # failedDeps \/ completed' # completed)
       => /\ pc = "collect" /\ results # <<>> /\ results' = Tail(results)
          /\ UNCHANGED <<semaphore, npmMutex>>
          /\ \A j \in Tasks : taskLocalUnchanged(j)

\* C32: in a batch the tasks share only the permit pool, the lock and the result
\* channel: a step of a worker changes nothing else outside its own task, and the
\* failed list and the completed counter change only in a step of the collector, so
\* the report never has two writers.
C32_ReportWrittenByCollectorOnly == [][batchEntry => singleWriter]_vars

\* C32 witness: the collector has already listed one failure while the other task,
\* which will fail too, is still running its subprocess.
C32_Witness ==
  /\ batchEntry /\ ~strictMode /\ pc = "collect"
  /\ Len(failedDeps) = 1 /\ completed = 1
  /\ \E i \in Tasks : tpc[i] = "run" /\ fails[i]

\* ---- lock nesting ---------------------------------------------------------
\* The last result put on the channel by this step, if the step is a send.
sentBy(i) ==
  /\ Len(results') = Len(results) + 1
  /\ senderOf(results'[Len(results')]) = i

\* The order of the operations of task i on the shared objects, each tied to the
\* step that performs it: the permit is taken first; the lock is taken by a task
\* that holds a permit and keeps it; the step that sends the result is taken by a
\* task that no longer holds the lock and still holds its permit; the permit is
\* given back by a task that has sent.
nestingOrder(i) ==
  /\ (tpc[i] = "acquire" /\ tpc'[i] # "acquire")
       => /\ semaphore' = semaphore + 1 /\ npmMutex' = npmMutex /\ npmMutex # i
          /\ tpc'[i] = (IF useBun THEN "run" ELSE "lock")
  /\ (npmMutex # i /\ npmMutex' = i)
       => /\ ~useBun /\ tpc[i] = "lock" /\ tpc'[i] = "run"
          /\ semaphore' = semaphore /\ semaphore > 0
  /\ (tpc[i] = "run" /\ tpc'[i] # "run")
       => /\ tpc'[i] = "send" /\ npmMutex' # i
          /\ semaphore' = semaphore /\ results' = results
  /\ sentBy(i)
       => /\ tpc[i] = "send" /\ tpc'[i] = "release"
          /\ npmMutex # i /\ npmMutex' # i
          /\ semaphore' = semaphore /\ semaphore > 0
  /\ (tpc[i] = "release" /\ tpc'[i] # "release")
       => /\ tpc'[i] = "done" /\ semaphore' = semaphore - 1
          /\ results' = results /\ npmMutex' = npmMutex

\* C33: every task takes its permit first, takes npmMutex (under npm only) while it
\* holds the permit, gives the lock back before it sends its result and sends its
\* result before it gives the permit back; so under npm up to min(4, N) tasks hold
\* permits while at most one of them runs its subprocess.
C33_LockNestingOrder ==
  /\ [][batchEntry => \A i \in Tasks : nestingOrder(i)]_vars
  /\ []((batchEntry /\ ~useBun)
          => /\ semaphore = Cardinality(permitHolders)
             /\ semaphore <= (IF totalDeps < 4 THEN totalDeps ELSE 4)
             /\ Cardinality(inFlight) <= 1
             /\ \A i \in inFlight : npmMutex = i)

\* C33 witness: under npm four of five tasks hold the four permits, one of them runs
\* its subprocess with the lock and the three others wait for the lock.
C33_Witness ==
  /\ batchEntry /\ ~useBun /\ totalDeps = 5
  /\ semaphore = 4 /\ Cardinality(inFlight) = 1
  /\ Cardinality({i \in Tasks : tpc[i] = "lock"}) = 3
  /\ \E i \in inFlight : npmMutex = i

\* ---- absence of deadlock --------------------------------------------------
\* Launched tasks that have not finished.
unfinished == {i \in Tasks : tpc[i] \notin {"unstarted", "done"}}

\* Some task can take a step.
taskProgress == \E i \in Tasks : TaskStep(i)

\* C34: a running batch is never stuck: as long as a launched task has not finished
\* some task can take a step (subprocesses return), whatever the backend and the
\* number of entries, also when tasks that wait for the lock keep permits that other
\* tasks wait for; and as long as the process runs some step of the program is
\* enabled.
C34_NoDeadlock ==
  (batchEntry /\ running)
    => /\ unfinished # {} => ENABLED taskProgress
       /\ ENABLED BatchNext

\* C34 witness: under npm five tasks are launched, four hold the four permits, three
\* of these wait for the lock held by the fourth, and the fifth waits for a permit.
C34_Witness ==
  /\ batchEntry /\ running /\ ~useBun /\ totalDeps = 5 /\ spawned = 5
  /\ semaphore = 4
  /\ Cardinality({i \in Tasks : tpc[i] = "lock"}) = 3
  /\ Cardinality({i \in Tasks : tpc[i] = "acquire"}) = 1
  /\ ENABLED taskProgress

\* ---- the result channel ---------------------------------------------------
\* Tasks about to send their result.
senders == {i \in Tasks : tpc[i] = "send"}

\* C35: the result channel never holds more than N results, there is room in it
\* for every task that is about to send, and such a task can always send, however
\* few results the collector has received.
C35_SendNeverBlocks ==
  batchEntry
    => /\ Len(results) <= totalDeps
       /\ Len(results) + Cardinality(senders) <= totalDeps
       /\ \A i \in senders : running => ENABLED SendResult(i)

\* C35 witness: the five results of a batch of five are all in the channel, the
\* collector having received none, and the tasks were able to send them all.
C35_Witness ==
  /\ batchEntry /\ totalDeps = 5 /\ completed = 0
  /\ Len(results) = 5
  /\ \A i \in Tasks : tpc[i] \in {"release", "done"}

\* ---- strict and ad-hoc batches --------------------------------------------
\* C36: a strict batch that reaches its final summary had no failure: the subprocess
\* of every entry succeeded, all N results were counted, the failed list is empty
\* and the summary says that all dependencies were installed.
C36_StrictSummaryMeansAllSucceeded ==
  (strictMode /\ pc = "summary")
    => /\ failing = {}
       /\ completed = totalDeps
       /\ failedDeps = <<>> /\ abortMsg = <<>> /\ running
       /\ finalSummary.headline = "All dependencies installed successfully!"
       /\ finalSummary.count = totalDeps

\* C36 witness: a strict batch of a dependency and a dev dependency has reached
\* its summary.
C36_Witness ==
  /\ strictMode /\ pc = "summary"
  /\ Len(deps) = 1 /\ Len(devDeps) = 1 /\ completed = 2
  /\ finalSummary.headline = "All dependencies installed successfully!"

\* C37: the ad-hoc install batch never ends the process on a failure: it has no
\* abort message and no failure exit status, and it prints its summary only after
\* it has received all N results, the failures among them listed.
C37_AdHocBatchNeverExitsEarly ==
  entry = "InstallPackages"
    => /\ exitCode \in {-1, 0} /\ abortMsg = <<>> /\ pc # "exited"
       /\ failedDeps # <<>> => (pc \in {"collect", "summary"} /\ completed >= Len(failedDeps))
       /\ pc = "summary"
            => /\ completed = totalDeps /\ results = <<>>
               /\ Len(failedDeps) = Cardinality(failing)

\* C37 witness: the first of two packages of an ad-hoc install failed, and the
\* batch went on to its summary with both results received and one failure listed.
C37_Witness ==
  /\ entry = "InstallPackages" /\ pc = "summary" /\ totalDeps = 2
  /\ fails[1] /\ ~fails[2]
  /\ completed = 2 /\ failedDeps = <<packageNameOf(1)>>
  /\ exitCode = -1

\* ---- the fast backend -----------------------------------------------------
\* C38: whenever bun is the resolved backend, a lookup of "bun" on the search path
\* succeeded during the resolution of that run, also when bun was selected after a
\* successful installBun.
C38_BunChosenOnlyIfFound ==
  (pc # "start" /\ useBun) => bunLookup = "found"

====
